---- MODULE Spec2Model ----
(***************************************************************************)
(* ENS-Manager-Client: the resolution engine and the record/ownership      *)
(* writer of ens_manager/ens_operations.py (NetworkManager,                *)
(* CrossNetworkResolver, GlobalResolver._resolve_on_network and the        *)
(* ENSManager facade).                                                     *)
(*                                                                         *)
(* The chain is the environment: its registry, resolver and controller     *)
(* state are variables, every transport call may raise, and a receipt may  *)
(* report any status.  An operation is one action; the record `last` holds *)
(* what the caller of the latest operation observed (the value returned or *)
(* the exception raised) together with the transport calls it made.        *)
(***************************************************************************)
EXTENDS Integers, Sequences, FiniteSets, TLC

\* ---------------------------------------------------------------- bounds
\* Distinct non-zero account addresses: 1 is the signer's, the rest are others.
NumAddrs == 2

\* ------------------------------------------------------- program constants
\* The keys of NETWORK_CONFIGS that the model instantiates: the canonical
\* chain and one L2 (optimism, arbitrum and base behave like polygon).
NETWORK_CONFIGS == {"mainnet", "polygon"}

\* The attributes ENSManager.__init__ assigns on self.
ManagerAttrs ==
    {"w3", "network_manager", "cross_resolver", "global_resolver",
     "registry", "resolver", "controller"}

\* The name operated on and the network argument (NoNetwork is Python's None).
Names == {"x.eth"}
NoNetwork == "None"

\* ------------------------------------------------------------- strings
\* An address-like string is [form, id]: id is the 20-byte value it denotes
\* (0 is the zero address), form is how it is written.
AddrIds == 1 .. NumAddrs
SignerId == 1
None == [form |-> "none", id |-> 0]
EmptyStr == [form |-> "empty", id |-> 0]
Malformed == [form |-> "malformed", id |-> 0]
Lower(i) == [form |-> "lower", id |-> i]
Checksum(i) == [form |-> "checksum", id |-> i]
ZeroAddr == Checksum(0)

\* Python truthiness of an optional string.
Truthy(s) == s.form \notin {"none", "empty"}

\* eth_utils.is_address: hex of the right length, all lower-case or with a
\* correct mixed-case checksum.
is_address(s) == s.form \in {"lower", "checksum"}

\* eth_utils.to_checksum_address of a string that is_address accepted.
to_checksum_address(s) == [form |-> "checksum", id |-> s.id]

\* str.lower()
lower(s) == IF s.form = "checksum" THEN [form |-> "lower", id |-> s.id] ELSE s

\* The strings a text record can hold, the address arguments callers pass, the
\* owners the registry can report and the values ENS.address can yield.
TextVals == {EmptyStr, Malformed, Lower(NumAddrs), Checksum(NumAddrs)}
AddrArgs == {Malformed, Lower(NumAddrs)}
Owners == {ZeroAddr} \cup {Checksum(i) : i \in AddrIds}
Resolved == {None, ZeroAddr, Checksum(NumAddrs)}

VARIABLES
    credential,       \* ENSManager(private_key=...) was given a key
    envKey,           \* the environment variable ETH_PRIVATE_KEY is set
    connections,      \* NetworkManager.connections: the live networks
    current_network,  \* NetworkManager.current_network
    owner,            \* registry: name -> owner address (zero = unowned)
    hasResolver,      \* registry: name -> a resolver is set
    text,             \* resolver: name -> network -> network.<id>.address
    addr,             \* what ENS.address(name) yields: None, zero or an address
    available,        \* controller: name -> available for registration
    last,             \* the latest operation: arguments, calls, outcome
    wpc,              \* concurrent set_network_address calls: position
    wcall,            \* ... their arguments
    wnonce,           \* ... the transaction count each one read
    wret,             \* ... what each one returned
    sent,             \* calls that reached send_raw_transaction
    txCount,          \* chain: transactions mined from the account
    pending,          \* node: transactions accepted and not yet mined
    receipt,          \* chain: the fate of each accepted transaction
    resolution_cache, \* GlobalResolver.resolution_cache: name -> (data, time)
    now,              \* time.time(), in seconds
    current_activities, \* ENSActivity.current_activities: name -> events
    files,            \* export_dir/<name>/activity_<day>.json, per day
    utcnow,           \* datetime.now(timezone.utc), in half days
    tpc,              \* overlapping add_activity calls: position
    tevent,           \* ... the event each one is adding
    tlocal,           \* ... the list each one read from the day file
    providers,        \* ConfigManager.config['providers']: the names
    active_provider,  \* ConfigManager.config['active_provider']
    accounts,         \* ConfigManager.config['accounts']: the names
    active_account    \* ConfigManager.config['active_account']

nonceVars == <<wpc, wcall, wnonce, wret, sent, txCount, pending, receipt>>

cacheVars == <<resolution_cache, now>>

activityVars == <<current_activities, files, utcnow>>
callVars == <<tpc, tevent, tlocal>>

storeVars == <<providers, active_provider, accounts, active_account>>

extVars == <<nonceVars, cacheVars, activityVars, callVars, storeVars>>

vars == <<credential, envKey, connections, current_network,
          owner, hasResolver, text, addr, available, last, extVars>>

chainVars == <<owner, hasResolver, text, addr, available>>
configVars == <<credential, envKey, connections, current_network>>

\* ------------------------------------------------------ transport calls
\* F is the set of transport calls that raise during one operation.  A log
\* is the sequence of <<call, "ok" | "raise">> the operation performed.
Call(c, F) == << <<c, IF c \in F THEN "raise" ELSE "ok">> >>

RECURSIVE RunCalls(_, _)
RunCalls(steps, F) ==
    IF steps = <<>> THEN <<>>
    ELSE IF Head(steps) \in F THEN Call(Head(steps), F)
    ELSE Call(Head(steps), F) \o RunCalls(Tail(steps), F)

Raised(log) == log # <<>> /\ log[Len(log)][2] = "raise"

Called(log, c) == \E i \in 1 .. Len(log) : log[i][1] = c
Succeeded(log, c) == \E i \in 1 .. Len(log) : log[i] = <<c, "ok">>

NoOp == [op |-> "init"]

\* Concurrent calls of CrossNetworkResolver.set_network_address, all from
\* the one account eth.default_account.
NumWriters == 2
MaxTx == 2

Writers == 1 .. NumWriters

NoCall == [name |-> "", network |-> "", address |-> None]

NonceInit ==
    /\ wpc = [w \in Writers |-> "idle"]
    /\ wcall = [w \in Writers |-> NoCall]
    /\ wnonce = [w \in Writers |-> -1]
    /\ wret = [w \in Writers |-> NoOp]
    /\ sent = {}
    /\ txCount = 0
    /\ pending = {}
    /\ receipt = [w \in Writers |-> -1]

\* GlobalResolver.__init__: an empty cache, entries kept for 300 seconds.
cache_duration == 300

NoEntry == [data |-> NoOp, timestamp |-> -1]

CacheInit ==
    /\ resolution_cache = [n \in Names |-> NoEntry]
    /\ now = 0

\* ENSActivity: time is counted in half days, so DayLen ticks make a day.
MaxClock == 3
DayLen == 2
NumCallers == 2

Day(t) == t \div DayLen
Days == 0 .. Day(MaxClock)
Callers == 1 .. NumCallers

\* A day file: not there, a JSON list of events, or not parseable.
Absent == [state |-> "absent", events |-> <<>>]
Json(events) == [state |-> "json", events |-> events]
Corrupt == [state |-> "corrupt", events |-> <<>>]

NoEvent == [timestamp |-> -1, type |-> "", data |-> ""]

\* What a call of add_activity holds: the name, the event, the day of the
\* file it writes.
NoAdd == [name |-> "", activity |-> NoEvent, day |-> -1]

\* ENSActivity.__init__ on a fresh export directory.
ActivityInit ==
    /\ current_activities = [n \in Names |-> <<>>]
    /\ files = [n \in Names |-> [d \in Days |-> Absent]]
    /\ utcnow = 0
    /\ tpc = [c \in Callers |-> "idle"]
    /\ tevent = [c \in Callers |-> NoAdd]
    /\ tlocal = [c \in Callers |-> <<>>]

\* config.get('active_provider') with no such key.
NotSet == "None"

\* ConfigManager after initialize() wrote the default configuration.
StoreInit ==
    /\ providers = {}
    /\ active_provider = NotSet
    /\ accounts = {}
    /\ active_account = NotSet

ExtInit == NonceInit /\ CacheInit /\ ActivityInit /\ StoreInit

\* A name without a resolver has no records.
RecordsNeedResolver ==
    \A n \in Names : ~hasResolver[n] =>
        /\ addr[n] = None
        /\ \A k \in NETWORK_CONFIGS : text[n][k] = EmptyStr

\* The resolution engine: any live set, any records on the canonical chain.
InitResolve ==
    /\ credential = FALSE
    /\ envKey = FALSE
    /\ connections \in SUBSET NETWORK_CONFIGS
    /\ current_network = "mainnet"
    /\ owner = [n \in Names |-> ZeroAddr]
    /\ hasResolver \in [Names -> BOOLEAN]
    /\ text \in [Names -> [NETWORK_CONFIGS -> TextVals]]
    /\ addr \in [Names -> Resolved]
    /\ available = [n \in Names |-> TRUE]
    /\ RecordsNeedResolver
    /\ last = NoOp
    /\ ExtInit

\* The writer: any credentials, any live set, any owner; the records start
\* empty and the writer fills them.
InitWriter ==
    /\ credential \in BOOLEAN
    /\ envKey \in BOOLEAN
    /\ connections \in SUBSET NETWORK_CONFIGS
    /\ current_network = "mainnet"
    /\ owner \in [Names -> Owners]
    /\ hasResolver \in [Names -> BOOLEAN]
    /\ text = [n \in Names |-> [k \in NETWORK_CONFIGS |-> EmptyStr]]
    /\ addr = [n \in Names |-> None]
    /\ available \in [Names -> BOOLEAN]
    /\ last = NoOp
    /\ ExtInit

\* ------------------------------------------------------- NetworkManager
get_web3(network) ==
    LET n == IF network = NoNetwork THEN current_network ELSE network
    IN  n \in connections

\* The membership test of line 181 left out.
SetCurrentNetwork_unchecked(network) ==
    /\ current_network' = network
    /\ last' = [op |-> "set_current_network", network |-> network,
                outcome |-> "return", ret |-> [value |-> TRUE]]
    /\ UNCHANGED <<extVars, credential, envKey, connections, chainVars>>

SetCurrentNetwork(network) ==
    /\ IF network \in connections
       THEN /\ current_network' = network
            /\ last' = [op |-> "set_current_network", network |-> network,
                        outcome |-> "return", ret |-> [value |-> TRUE]]
       ELSE /\ current_network' = current_network
            /\ last' = [op |-> "set_current_network", network |-> network,
                        outcome |-> "return", ret |-> [value |-> FALSE]]
    /\ UNCHANGED <<extVars, credential, envKey, connections, chainVars>>

\* -------------------------------------------------- CrossNetworkResolver
\* get_network_specific_address without the is_address test: any non-empty
\* record is handed back as it is.
get_network_specific_address_unchecked(name, network, F) ==
    IF "mainnet" \notin connections
    THEN [val |-> None, calls |-> <<>>]
    ELSE
      LET c1 == Call("m.resolver", F) IN
      IF Raised(c1)
      THEN [val |-> None, calls |-> c1]
      ELSE
        LET c2 == IF hasResolver[name] THEN Call("m.text", F) ELSE <<>>
            network_address == text[name][network]
            found == /\ hasResolver[name]
                     /\ ~Raised(c2)
                     /\ Truthy(network_address)
        IN
        IF found
        THEN [val |-> network_address, calls |-> c1 \o c2]
        ELSE IF network = "mainnet"
        THEN LET c3 == Call("m.address", F) IN
             [val |-> IF Raised(c3) THEN None ELSE addr[name],
              calls |-> c1 \o c2 \o c3]
        ELSE [val |-> None, calls |-> c1 \o c2]

\* CrossNetworkResolver.mainnet_web3 is get_web3('mainnet') taken at
\* construction; it is Python's None when mainnet is not live, and then the
\* first attribute access raises inside the outer try.
get_network_specific_address(name, network, F) ==
    IF "mainnet" \notin connections
    THEN [val |-> None, calls |-> <<>>]
    ELSE
      LET c1 == Call("m.resolver", F) IN
      IF Raised(c1)
      THEN [val |-> None, calls |-> c1]
      ELSE
        LET c2 == IF hasResolver[name] THEN Call("m.text", F) ELSE <<>>
            network_address == text[name][network]
            found == /\ hasResolver[name]
                     /\ ~Raised(c2)
                     /\ Truthy(network_address)
                     /\ is_address(network_address)
        IN
        IF found
        THEN [val |-> to_checksum_address(network_address), calls |-> c1 \o c2]
        ELSE IF network = "mainnet"
        THEN LET c3 == Call("m.address", F) IN
             [val |-> IF Raised(c3) THEN None ELSE addr[name],
              calls |-> c1 \o c2 \o c3]
        ELSE [val |-> None, calls |-> c1 \o c2]

\* --------------------- CrossNetworkResolver.get_all_network_addresses
\* The loop runs over the keys of NETWORK_CONFIGS, one
\* get_network_specific_address per network; Fs gives, per network, the
\* transport calls that raise during that network's resolution.
NetworkCalls == {"m.resolver", "m.text", "m.address"}

\* The loop with the per-network exception handling lost: the first network
\* (mainnet) whose resolution fails ends the loop.
get_all_network_addresses_abort(name, Fs) ==
    LET r == [n \in NETWORK_CONFIGS |->
                 get_network_specific_address(name, n, Fs[n])]
        keys == IF Raised(r["mainnet"].calls) /\ r["mainnet"].val = None
                THEN {"mainnet"} ELSE NETWORK_CONFIGS
    IN  [ret |-> [n \in keys |-> r[n].val],
         logs |-> [n \in keys |-> r[n].calls]]

get_all_network_addresses(name, Fs) ==
    LET r == [n \in NETWORK_CONFIGS |->
                 get_network_specific_address(name, n, Fs[n])]
    IN  [ret |-> [n \in NETWORK_CONFIGS |-> r[n].val],
         logs |-> [n \in NETWORK_CONFIGS |-> r[n].calls]]

GetAllNetworkAddresses(name) ==
    \E Fs \in [NETWORK_CONFIGS -> SUBSET NetworkCalls] :
        LET r == get_all_network_addresses(name, Fs) IN
        /\ last' = [op |-> "get_all_network_addresses", name |-> name,
                    outcome |-> "return", ret |-> r.ret, logs |-> r.logs]
        /\ UNCHANGED <<extVars, configVars, chainVars>>

\* ------------------------- CrossNetworkResolver.validate_network_setup
NoResolverSet == "No resolver set"
NoTextSupport == "Resolver doesn't support text records"
CannotVerify == "Cannot verify resolver interface support"
InvalidFormat(network) == <<"Invalid address format for", network>>

\* The networks in the order of the keys of NETWORK_CONFIGS.
NetworkOrder == <<"mainnet", "polygon">>

\* self.mainnet_web3 is connections.get('mainnet') taken at construction:
\* None when mainnet is not connected, and None.ens raises. The resolver
\* lookup of line 273 stands outside every try block.
validate_network_setup(name, supports_text, F, Ft) ==
    IF "mainnet" \notin connections
    THEN [outcome |-> "raise", ret |-> [exception |-> "AttributeError"],
          calls |-> <<>>]
    ELSE
    LET r == Call("m.resolver", F) IN
    IF Raised(r)
    THEN [outcome |-> "raise", ret |-> [exception |-> "TransportError"],
          calls |-> r]
    ELSE IF ~hasResolver[name]
    THEN [outcome |-> "return", ret |-> <<NoResolverSet>>, calls |-> r]
    ELSE
    LET s == Call("supportsInterface", F)
        interface == IF Raised(s) THEN <<CannotVerify>>
                     ELSE IF ~supports_text THEN <<NoTextSupport>>
                     ELSE <<>>
        reads == [i \in 1 .. Len(NetworkOrder) |->
                     <<"m.text",
                       IF Ft[NetworkOrder[i]] THEN "raise" ELSE "ok">>]
        records == SelectSeq(
                     [i \in 1 .. Len(NetworkOrder) |->
                        LET address == text[name][NetworkOrder[i]] IN
                        IF /\ ~Ft[NetworkOrder[i]]
                           /\ Truthy(address) /\ ~is_address(address)
                        THEN InvalidFormat(NetworkOrder[i]) ELSE <<>>],
                     LAMBDA m : m # <<>>)
    IN  [outcome |-> "return", ret |-> interface \o records,
         calls |-> r \o s \o reads]

ValidateNetworkSetup(name) ==
    \E supports_text \in BOOLEAN,
       F \in SUBSET {"m.resolver", "supportsInterface"},
       Ft \in [NETWORK_CONFIGS -> BOOLEAN] :
        LET r == validate_network_setup(name, supports_text, F, Ft) IN
        /\ last' = [op |-> "validate_network_setup", name |-> name,
                    outcome |-> r.outcome, ret |-> r.ret, calls |-> r.calls]
        /\ UNCHANGED <<extVars, configVars, chainVars>>

\* ------------------------------------------------ ENSManager.resolve_name
\* resolve_name with the two sources in the wrong order: the default lookup
\* is made first and the network-specific record only when it gave nothing.
resolve_name_default_first(name, network, F) ==
    LET net == IF network = NoNetwork THEN current_network ELSE network
        c == Call("w3.address", F)
        address == addr[name]
    IN
    IF ~Raised(c) /\ Truthy(address) /\ address # ZeroAddr
    THEN [ret |-> address, calls |-> c]
    ELSE LET r == get_network_specific_address(name, net, F) IN
         [ret |-> IF Truthy(r.val) THEN r.val ELSE None,
          calls |-> c \o r.calls]

resolve_name(name, network, F) ==
    LET net == IF network = NoNetwork THEN current_network ELSE network
        r == get_network_specific_address(name, net, F)
    IN
    IF Truthy(r.val)
    THEN [ret |-> r.val, calls |-> r.calls]
    ELSE IF net = "mainnet"
    THEN LET c == Call("w3.address", F)
             address == addr[name]
         IN
         IF ~Raised(c) /\ Truthy(address) /\ address # ZeroAddr
         THEN [ret |-> address, calls |-> r.calls \o c]
         ELSE [ret |-> None, calls |-> r.calls \o c]
    ELSE [ret |-> None, calls |-> r.calls]

ResolveCalls == {"m.resolver", "m.text", "m.address", "w3.address"}

ResolveName(name, network) ==
    \E F \in SUBSET ResolveCalls :
        LET r == resolve_name(name, network, F) IN
        /\ last' = [op |-> "resolve_name", name |-> name,
                    network |-> IF network = NoNetwork
                                THEN current_network ELSE network,
                    outcome |-> "return", ret |-> r.ret, calls |-> r.calls]
        /\ UNCHANGED <<extVars, configVars, chainVars>>

\* ------------------------------------------------ ENSManager.batch_resolve
MaxBatch == 2

\* Lists of at most MaxBatch names, duplicates included.
NameLists == UNION {[1 .. n -> Names] : n \in 0 .. MaxBatch}

\* At most one transport call fails during the resolution of one name.
ItemFailures == {{}} \cup {{c} : c \in ResolveCalls}

\* resolve_name is a plain function: what it returns, a str or None, is
\* neither a coroutine nor a future.
IsAwaitable(v) == v \notin ({None} \cup {Lower(i) : i \in 0 .. NumAddrs}
                                   \cup {Checksum(i) : i \in 0 .. NumAddrs})

\* dict(zip(names, results)): a later pair replaces an earlier one with the
\* same key.
DictZip(names, results) ==
    [k \in {names[i] : i \in 1 .. Len(names)} |->
        LET i == CHOOSE i \in 1 .. Len(names) :
                     /\ names[i] = k
                     /\ \A j \in i + 1 .. Len(names) : names[j] # k
        IN  results[i]]

\* asyncio.gather(*tasks) wraps each argument in a future and raises
\* TypeError for an argument that is not awaitable.
gather(tasks) ==
    IF \A i \in 1 .. Len(tasks) : IsAwaitable(tasks[i])
    THEN [outcome |-> "return", val |-> tasks]
    ELSE [outcome |-> "raise", val |-> <<>>]

batch_resolve(names, Fs) ==
    LET tasks == [i \in 1 .. Len(names) |->
                     resolve_name(names[i], NoNetwork, Fs[i]).ret]
        g == gather(tasks)
    IN  IF g.outcome = "raise"
        THEN [outcome |-> "raise", ret |-> "TypeError", tasks |-> tasks]
        ELSE [outcome |-> "return", ret |-> DictZip(names, g.val),
              tasks |-> tasks]

BatchResolve(names) ==
    \E Fs \in [1 .. Len(names) -> ItemFailures] :
        LET r == batch_resolve(names, Fs) IN
        /\ last' = [op |-> "batch_resolve", names |-> names,
                    outcome |-> r.outcome, ret |-> r.ret, tasks |-> r.tasks]
        /\ UNCHANGED <<extVars, configVars, chainVars>>

\* --------------------------------------------- ENSManager.reverse_resolve
\* NoName is Python's None where a name is expected.  answer is what
\* w3.ens.name(address) yields: the primary name of the address or None.
NoName == "None"
ReverseNames == {NoName} \cup Names
ReverseArgs == {EmptyStr, Malformed, Lower(NumAddrs), Checksum(NumAddrs)}

\* reverse_resolve with the lookup made before the format test.
reverse_resolve_lookup_first(address, answer, F) ==
    LET c == Call("w3.name", F) IN
    IF Raised(c) \/ ~is_address(address)
    THEN [ret |-> NoName, calls |-> c]
    ELSE [ret |-> answer, calls |-> c]

reverse_resolve(address, answer, F) ==
    IF ~is_address(address)
    THEN [ret |-> NoName, calls |-> <<>>]
    ELSE LET c == Call("w3.name", F) IN
         [ret |-> IF Raised(c) THEN NoName ELSE answer, calls |-> c]

ReverseResolve(address) ==
    \E answer \in ReverseNames, F \in SUBSET {"w3.name"} :
        LET r == reverse_resolve(address, answer, F) IN
        /\ last' = [op |-> "reverse_resolve", arg |-> address,
                    outcome |-> "return", ret |-> r.ret, calls |-> r.calls]
        /\ UNCHANGED <<extVars, configVars, chainVars>>

\* ------------------------------------- GlobalResolver._resolve_on_network
\* resolve_globally calls it for the networks of get_available_networks()
\* with the resolver it read through mainnet_web3 and the resolver's answer
\* to supportsInterface.  response is what the cross-chain read returns:
\* empty, or the ABI encoding of an address.
NoResult == [address |-> None, resolution_type |-> "None"]

CcipResponses == {EmptyStr, ZeroAddr, Checksum(NumAddrs)}

resolve_on_network(name, network, supports_ccip, response, F) ==
    IF ~get_web3(network)
    THEN [ret |-> [error |-> "Network not available"], calls |-> <<>>]
    ELSE
      LET c1 == Call("m.text", F)
          network_address == text[name][network]
      IN
      IF ~Raised(c1) /\ Truthy(network_address) /\ is_address(network_address)
      THEN [ret |-> [address |-> to_checksum_address(network_address),
                     resolution_type |-> "network_specific"],
            calls |-> c1]
      ELSE
        LET c2 == IF supports_ccip THEN Call("ccip", F) ELSE <<>> IN
        IF supports_ccip /\ ~Raised(c2) /\ Truthy(response)
        THEN [ret |-> [address |-> to_checksum_address(response),
                       resolution_type |-> "ccip_read"],
              calls |-> c1 \o c2]
        ELSE IF network # "mainnet"
        THEN LET c3 == Call("m.address", F)
                 mainnet_address == addr[name]
             IN
             IF Raised(c3)
             THEN [ret |-> [error |-> "exception"], calls |-> c1 \o c2 \o c3]
             ELSE IF Truthy(mainnet_address)
             THEN [ret |-> [address |-> mainnet_address,
                            resolution_type |-> "mainnet_fallback"],
                   calls |-> c1 \o c2 \o c3]
             ELSE [ret |-> NoResult, calls |-> c1 \o c2 \o c3]
        ELSE [ret |-> NoResult, calls |-> c1 \o c2]

GlobalCalls == {"m.text", "ccip", "m.address"}

ResolveOnNetwork(name, network) ==
    /\ "mainnet" \in connections
    /\ network \in connections
    /\ hasResolver[name]
    /\ \E supports_ccip \in BOOLEAN, response \in CcipResponses,
          F \in SUBSET GlobalCalls :
        LET r == resolve_on_network(name, network, supports_ccip, response, F)
        IN
        /\ last' = [op |-> "_resolve_on_network", name |-> name,
                    network |-> network, supports_ccip |-> supports_ccip,
                    response |-> IF Succeeded(r.calls, "ccip")
                                 THEN response ELSE None,
                    outcome |-> "return", ret |-> r.ret, calls |-> r.calls]
        /\ UNCHANGED <<extVars, configVars, chainVars>>

\* ------------------------------------------------- Record/Ownership Writer
\* A writer returns the pair (success, message).
Ok(msg) == [success |-> TRUE, message |-> msg]
Fail(msg) == [success |-> FALSE, message |-> msg]

TxHash == "0xtx"

Returned(pair, log, hash) ==
    [outcome |-> "return", ret |-> pair, calls |-> log, tx_hash |-> hash]

\* An exception that leaves the operation: `self.account` is read before the
\* try block of every ENSManager writer.
Raise(exc, log) ==
    [outcome |-> "raise", ret |-> [exception |-> exc], calls |-> log,
     tx_hash |-> ""]

HasAttr(a) == a \in ManagerAttrs

\* self.account.address, were the attribute there: the signer's address.
account_address == Checksum(SignerId)

\* Lifecycle with the exception of send_raw_transaction swallowed: the
\* operation goes on to report the receipt although nothing was broadcast.
Lifecycle_SendSwallowed(pre, reads, key, F, status, okMsg, errMsg) ==
    LET b == RunCalls(reads, F) IN
    IF Raised(b)
    THEN Returned(Fail(errMsg), pre \o b, "")
    ELSE IF ~key
    THEN Returned(Fail(errMsg), pre \o b \o << <<"sign", "raise">> >>, "")
    ELSE
      LET s == pre \o b \o << <<"sign", "ok">> >>
          c == Call("send", F)
          w == Call("wait", F)
          h == IF Raised(c) THEN "" ELSE TxHash
      IN
      IF Raised(w)
      THEN Returned(Fail(errMsg), s \o c \o w, h)
      ELSE IF status = 1
      THEN Returned(Ok(okMsg), s \o c \o w, h)
      ELSE Returned(Fail("Transaction failed"), s \o c \o w, h)

\* Lifecycle with a blind retry: a failed send_raw_transaction is sent again.
Lifecycle_Retry(pre, reads, key, F, status, okMsg, errMsg) ==
    LET b == RunCalls(reads, F) IN
    IF Raised(b)
    THEN Returned(Fail(errMsg), pre \o b, "")
    ELSE IF ~key
    THEN Returned(Fail(errMsg), pre \o b \o << <<"sign", "raise">> >>, "")
    ELSE
      LET s == pre \o b \o << <<"sign", "ok">> >>
          c == Call("send", F)
          w == Call("wait", F)
      IN
      IF Raised(c)
      THEN Returned(Fail(errMsg), s \o c \o c, "")
      ELSE IF Raised(w)
      THEN Returned(Fail(errMsg), s \o c \o w, TxHash)
      ELSE IF status = 1
      THEN Returned(Ok(okMsg), s \o c \o w, TxHash)
      ELSE Returned(Fail("Transaction failed"), s \o c \o w, TxHash)

\* Lifecycle with the receipt check left out: any receipt is a success.
Lifecycle_StatusIgnored(pre, reads, key, F, status, okMsg, errMsg) ==
    LET b == RunCalls(reads, F) IN
    IF Raised(b)
    THEN Returned(Fail(errMsg), pre \o b, "")
    ELSE IF ~key
    THEN Returned(Fail(errMsg), pre \o b \o << <<"sign", "raise">> >>, "")
    ELSE
      LET s == pre \o b \o << <<"sign", "ok">> >>
          c == Call("send", F)
          w == Call("wait", F)
      IN
      IF Raised(c)
      THEN Returned(Fail(errMsg), s \o c, "")
      ELSE IF Raised(w)
      THEN Returned(Fail(errMsg), s \o c \o w, TxHash)
      ELSE Returned(Ok(okMsg), s \o c \o w, TxHash)

\* Build, sign, send_raw_transaction, wait_for_transaction_receipt and the
\* receipt check, inside the operation's try block: the first call that raises
\* ends the operation with its "Error ..." message.  pre is the log so far,
\* reads the transport calls made while the transaction is built, key says
\* whether a signing key is at hand.
Lifecycle(pre, reads, key, F, status, okMsg, errMsg) ==
    LET b == RunCalls(reads, F) IN
    IF Raised(b)
    THEN Returned(Fail(errMsg), pre \o b, "")
    ELSE IF ~key
    THEN Returned(Fail(errMsg), pre \o b \o << <<"sign", "raise">> >>, "")
    ELSE
      LET s == pre \o b \o << <<"sign", "ok">> >>
          c == Call("send", F)
          w == Call("wait", F)
      IN
      IF Raised(c)
      THEN Returned(Fail(errMsg), s \o c, "")
      ELSE IF Raised(w)
      THEN Returned(Fail(errMsg), s \o c \o w, TxHash)
      ELSE IF status = 1
      THEN Returned(Ok(okMsg), s \o c \o w, TxHash)
      ELSE Returned(Fail("Transaction failed"), s \o c \o w, TxHash)

\* ENSManager.get_owner: the zero address and a failed read are both None.
get_owner(name, F) ==
    LET c == Call("owner", F) IN
    [val |-> IF Raised(c) \/ owner[name] = ZeroAddr THEN None ELSE owner[name],
     calls |-> c]

OwnedBySigner(current_owner) ==
    Truthy(current_owner) /\ lower(current_owner) = lower(account_address)

\* ENSManager.check_name_available: a failed read is False.
check_name_available(name, F) ==
    LET c == Call("available", F) IN
    [val |-> ~Raised(c) /\ available[name], calls |-> c]

register_name(name, F, status) ==
    IF ~HasAttr("account") THEN Raise("AttributeError", <<>>)
    ELSE IF ~credential THEN Returned(Fail("No account configured"), <<>>, "")
    ELSE
      LET a == check_name_available(name, F) IN
      IF ~a.val
      THEN Returned(Fail("Name is not available"), a.calls, "")
      ELSE Lifecycle(a.calls, <<"rentPrice", "nonce", "gasPrice", "build">>,
                     HasAttr("private_key"), F, status,
                     "Successfully registered", "Error registering name")

transfer_name(name, to_address, F, status) ==
    IF ~HasAttr("account") THEN Raise("AttributeError", <<>>)
    ELSE IF ~credential THEN Returned(Fail("No account configured"), <<>>, "")
    ELSE IF ~is_address(to_address)
    THEN Returned(Fail("Invalid target address"), <<>>, "")
    ELSE
      LET o == get_owner(name, F) IN
      IF ~OwnedBySigner(o.val)
      THEN Returned(Fail("You don't own this name"), o.calls, "")
      ELSE Lifecycle(o.calls, <<"nonce", "gasPrice", "build">>,
                     HasAttr("private_key"), F, status,
                     "Successfully transferred", "Error transferring name")

\* The second definition of set_address in the class (the first, at line 806,
\* is replaced by it when the class body is executed).
set_address(name, address, F, status) ==
    IF ~HasAttr("account") THEN Raise("AttributeError", <<>>)
    ELSE IF ~credential THEN Returned(Fail("No account configured"), <<>>, "")
    ELSE IF ~is_address(address)
    THEN Returned(Fail("Invalid target address"), <<>>, "")
    ELSE
      LET o == get_owner(name, F) IN
      IF ~OwnedBySigner(o.val)
      THEN Returned(Fail("You don't own this name"), o.calls, "")
      ELSE
        LET r == o.calls \o Call("resolver", F) IN
        IF Raised(r)
        THEN Returned(Fail("Error setting address"), r, "")
        ELSE IF ~hasResolver[name]
        THEN Returned(Fail("No resolver set for this name"), r, "")
        ELSE Lifecycle(r, <<"nonce", "gasPrice", "build">>,
                       HasAttr("private_key"), F, status,
                       "Successfully set address", "Error setting address")

\* owner_address is None when the caller leaves it out.
create_subdomain(domain, owner_address, F, status) ==
    IF ~HasAttr("account") THEN Raise("AttributeError", <<>>)
    ELSE IF ~credential THEN Returned(Fail("No account configured"), <<>>, "")
    ELSE
      LET o == get_owner(domain, F) IN
      IF ~OwnedBySigner(o.val)
      THEN Returned(Fail("You don't own the parent domain"), o.calls, "")
      ELSE IF Truthy(owner_address) /\ ~is_address(owner_address)
      THEN Returned(Fail("Invalid owner address"), o.calls, "")
      ELSE Lifecycle(o.calls, <<"nonce", "gasPrice", "build">>,
                     HasAttr("private_key"), F, status,
                     "Successfully created subdomain",
                     "Error creating subdomain")

\* CrossNetworkResolver.set_network_address (ENSManager.set_network_resolution
\* forwards to it): the whole body is inside the try block; the key is read
\* from the environment variable ETH_PRIVATE_KEY.
set_network_address(name, network, address, F, status) ==
    IF ~is_address(address)
    THEN Returned(Fail("Invalid address"), <<>>, "")
    ELSE IF "mainnet" \notin connections
    THEN Returned(Fail("Error setting address"), <<>>, "")
    ELSE
      LET r == Call("resolver", F) IN
      IF Raised(r)
      THEN Returned(Fail("Error setting address"), r, "")
      ELSE IF ~hasResolver[name]
      THEN Returned(Fail("No resolver set"), r, "")
      ELSE Lifecycle(r, <<"nonce", "build">>, envKey, F, status,
                     "Successfully set network address",
                     "Error setting address")

\* ------------------------------------------------------- writer actions
\* A writer stops at the first call that raises (or, for the owner and
\* availability reads, returns at once), so one failing call per run covers
\* every run.  status is the status of the receipt, 1 for success.
WriteCalls ==
    {"available", "owner", "resolver", "rentPrice", "nonce", "gasPrice",
     "build", "send", "wait"}

Failures == {{}} \cup {{c} : c \in WriteCalls}

ReceiptStatus == {0, 1}

\* The transaction was broadcast and the chain executed it successfully.
Mined(r, status) == Succeeded(r.calls, "send") /\ status = 1

\* What the caller saw, the calls made, and the owner and availability the
\* chain held when the operation started.
Observed(op, name, network, arg, r, status) ==
    [op |-> op, name |-> name, network |-> network, arg |-> arg,
     owner |-> owner[name], available |-> available[name],
     outcome |-> r.outcome, ret |-> r.ret, calls |-> r.calls,
     tx_hash |-> r.tx_hash,
     status |-> IF Succeeded(r.calls, "wait") THEN status ELSE -1]

RegisterName(name) ==
    \E F \in Failures, status \in ReceiptStatus :
        LET r == register_name(name, F, status) IN
        /\ last' = Observed("register_name", name, "-", None, r, status)
        /\ IF Mined(r, status)
           THEN /\ owner' = [owner EXCEPT ![name] = account_address]
                /\ available' = [available EXCEPT ![name] = FALSE]
           ELSE UNCHANGED <<owner, available>>
        /\ UNCHANGED <<extVars, configVars, hasResolver, text, addr>>

TransferName(name, to_address) ==
    \E F \in Failures, status \in ReceiptStatus :
        LET r == transfer_name(name, to_address, F, status) IN
        /\ last' = Observed("transfer_name", name, "-", to_address, r, status)
        /\ IF Mined(r, status)
           THEN owner' = [owner EXCEPT
                            ![name] = to_checksum_address(to_address)]
           ELSE UNCHANGED owner
        /\ UNCHANGED <<extVars, configVars, hasResolver, text, addr, available>>

SetAddress(name, address) ==
    \E F \in Failures, status \in ReceiptStatus :
        LET r == set_address(name, address, F, status) IN
        /\ last' = Observed("set_address", name, "-", address, r, status)
        /\ IF Mined(r, status)
           THEN addr' = [addr EXCEPT ![name] = to_checksum_address(address)]
           ELSE UNCHANGED addr
        /\ UNCHANGED <<extVars, configVars, owner, hasResolver, text, available>>

CreateSubdomain(domain, owner_address) ==
    \E F \in Failures, status \in ReceiptStatus :
        LET r == create_subdomain(domain, owner_address, F, status) IN
        /\ last' = Observed("create_subdomain", domain, "-", owner_address,
                            r, status)
        /\ UNCHANGED <<extVars, configVars, chainVars>>

SetNetworkAddress(name, network, address) ==
    \E F \in Failures, status \in ReceiptStatus :
        LET r == set_network_address(name, network, address, F, status) IN
        /\ last' = Observed("set_network_address", name, network, address,
                            r, status)
        /\ IF Mined(r, status)
           THEN text' = [text EXCEPT ![name][network] = address]
           ELSE UNCHANGED text
        /\ UNCHANGED <<extVars, configVars, owner, hasResolver, addr, available>>

\* --------------------------------------- ENSManager.bulk_create_subdomains
SubLabels == {"a", "b"}

SubLists == UNION {[1 .. n -> SubLabels] : n \in 0 .. MaxBatch}

\* Per item, the transport calls that fail while it is being created.
BulkFailures == {{}, {"owner"}, {"send"}}

\* The loop calls create_subdomain once per label, in list order; an
\* exception leaving create_subdomain leaves the loop and the function, and
\* the results collected so far are lost with it.
bulk_create_subdomains(domain, subdomains, owner_address, Fs, status) ==
    LET one == [i \in 1 .. Len(subdomains) |->
                   create_subdomain(domain, owner_address, Fs[i], status)]
        raising == {i \in 1 .. Len(subdomains) : one[i].outcome = "raise"}
    IN  IF raising # {}
        THEN LET i == CHOOSE i \in raising : \A j \in raising : i <= j IN
             [outcome |-> "raise", ret |-> one[i].ret, attempted |-> i]
        ELSE [outcome |-> "return",
              ret |-> [i \in 1 .. Len(subdomains) |->
                          [subdomain |-> subdomains[i],
                           success |-> one[i].ret.success,
                           message |-> one[i].ret.message]],
              attempted |-> Len(subdomains)]

BulkCreateSubdomains(domain, subdomains, owner_address) ==
    \E Fs \in [1 .. Len(subdomains) -> BulkFailures],
       status \in ReceiptStatus :
        LET r == bulk_create_subdomains(domain, subdomains, owner_address,
                                        Fs, status) IN
        /\ last' = [op |-> "bulk_create_subdomains", name |-> domain,
                    subdomains |-> subdomains, outcome |-> r.outcome,
                    ret |-> r.ret, attempted |-> r.attempted]
        /\ UNCHANGED <<extVars, configVars, chainVars>>

\* ------------------------------------------------------ name validation
\* A name is a sequence of one-character strings.
Uppercase ==
    <<"A", "B", "C", "D", "E", "F", "G", "H", "I", "J", "K", "L", "M",
      "N", "O", "P", "Q", "R", "S", "T", "U", "V", "W", "X", "Y", "Z">>

Lowercase ==
    <<"a", "b", "c", "d", "e", "f", "g", "h", "i", "j", "k", "l", "m",
      "n", "o", "p", "q", "r", "s", "t", "u", "v", "w", "x", "y", "z">>

Digits == {"0", "1", "2", "3", "4", "5", "6", "7", "8", "9"}

allowed_chars ==
    {Lowercase[i] : i \in 1 .. Len(Lowercase)} \cup Digits \cup {"-", "."}

lower_char(c) ==
    IF \E i \in 1 .. Len(Uppercase) : Uppercase[i] = c
    THEN Lowercase[CHOOSE i \in 1 .. Len(Uppercase) : Uppercase[i] = c]
    ELSE c

\* str.lower()
str_lower(s) == [i \in 1 .. Len(s) |-> lower_char(s[i])]

startswith(s, prefix) ==
    Len(s) >= Len(prefix) /\ SubSeq(s, 1, Len(prefix)) = prefix

endswith(s, suffix) ==
    /\ Len(s) >= Len(suffix)
    /\ SubSeq(s, Len(s) - Len(suffix) + 1, Len(s)) = suffix

\* sub in s
contains(s, sub) ==
    \E i \in 1 .. Len(s) - Len(sub) + 1 : SubSeq(s, i, i + Len(sub) - 1) = sub

\* s.split(c): the pieces between the occurrences of c, empty ones included.
RECURSIVE split(_, _)
split(s, c) ==
    IF \E i \in 1 .. Len(s) : s[i] = c
    THEN LET i == CHOOSE i \in 1 .. Len(s) :
                      s[i] = c /\ \A j \in 1 .. i - 1 : s[j] # c
         IN  <<SubSeq(s, 1, i - 1)>> \o split(SubSeq(s, i + 1, Len(s)), c)
    ELSE <<s>>

DotEth == <<".", "e", "t", "h">>
DotDot == <<".", ".">>
HyphenHyphen == <<"-", "-">>
Hyphen == <<"-">>
Dot == <<".">>

ValidTlds == {<<"e", "t", "h">>, <<"x", "y", "z">>, <<"t", "e", "s", "t">>}

MaxLabel == 63
MinName == 3

TooShort == "Name too short (minimum 3 characters)"
InvalidChars == "Contains invalid characters"
ConsecutiveHyphens == "Contains consecutive hyphens"
EdgeHyphen == "Cannot start or end with hyphen"
ConsecutiveDots == "Contains consecutive dots"
LabelTooLong == "Label exceeds 63 characters"

When(cond, issue) == IF cond THEN <<issue>> ELSE <<>>

\* normalized += '.eth' unless the suffix is there.
with_suffix(s) == IF endswith(s, DotEth) THEN s ELSE s \o DotEth

\* The suffix appended whether or not the name already has it.
validate_and_normalize_name_always_suffix(name) ==
    LET lowered == str_lower(name)
        normalized == lowered \o DotEth
        labels == split(normalized, ".")
        issues ==
            When(Len(lowered) < MinName, TooShort)
            \o When(~({normalized[i] : i \in 1 .. Len(normalized)}
                        \subseteq allowed_chars), InvalidChars)
            \o When(contains(normalized, HyphenHyphen), ConsecutiveHyphens)
            \o When(startswith(normalized, Hyphen)
                        \/ endswith(normalized, Hyphen), EdgeHyphen)
            \o When(contains(normalized, DotDot), ConsecutiveDots)
            \o SelectSeq([i \in 1 .. Len(labels) |->
                             IF Len(labels[i]) > MaxLabel
                             THEN LabelTooLong ELSE ""],
                         LAMBDA m : m # "")
    IN  [ok |-> issues = <<>>, normalized |-> normalized, issues |-> issues]

validate_and_normalize_name(name) ==
    LET lowered == str_lower(name)
        normalized == with_suffix(lowered)
        labels == split(normalized, ".")
        issues ==
            When(Len(lowered) < MinName, TooShort)
            \o When(~({normalized[i] : i \in 1 .. Len(normalized)}
                        \subseteq allowed_chars), InvalidChars)
            \o When(contains(normalized, HyphenHyphen), ConsecutiveHyphens)
            \o When(startswith(normalized, Hyphen)
                        \/ endswith(normalized, Hyphen), EdgeHyphen)
            \o When(contains(normalized, DotDot), ConsecutiveDots)
            \o SelectSeq([i \in 1 .. Len(labels) |->
                             IF Len(labels[i]) > MaxLabel
                             THEN LabelTooLong ELSE ""],
                         LAMBDA m : m # "")
    IN  [ok |-> issues = <<>>, normalized |-> normalized, issues |-> issues]

validate_name(name) ==
    IF name = <<>> \/ Len(name) < MinName THEN FALSE
    ELSE IF ~contains(name, Dot) THEN FALSE
    ELSE LET parts == split(name, ".")
             tld == parts[Len(parts)]
             lowered == str_lower(name)
         IN
         IF tld \notin ValidTlds THEN FALSE
         ELSE IF ~({lowered[i] : i \in 1 .. Len(lowered)}
                      \subseteq allowed_chars) THEN FALSE
         ELSE IF contains(name, DotDot) \/ contains(name, HyphenHyphen)
         THEN FALSE
         ELSE IF \/ startswith(name, Dot) \/ endswith(name, Dot)
                 \/ startswith(name, Hyphen) \/ endswith(name, Hyphen)
         THEN FALSE
         ELSE TRUE

\* The names handed to the two functions: a stem of at most MaxStem
\* characters followed by nothing or by a top-level domain.
MaxStem == 4

StemChars == {"e", "E", "1", "-", ".", "@"}

Stems == UNION {[1 .. n -> StemChars] : n \in 0 .. MaxStem}

Suffixes == {<<>>, DotEth, <<".", "E", "T", "H">>, <<".", "x", "y", "z">>}

NameInputs == {stem \o suffix : stem \in Stems, suffix \in Suffixes}

InitNames ==
    /\ credential = FALSE
    /\ envKey = FALSE
    /\ connections = {}
    /\ current_network = "mainnet"
    /\ owner = [n \in Names |-> ZeroAddr]
    /\ hasResolver = [n \in Names |-> FALSE]
    /\ text = [n \in Names |-> [k \in NETWORK_CONFIGS |-> EmptyStr]]
    /\ addr = [n \in Names |-> None]
    /\ available = [n \in Names |-> TRUE]
    /\ last \in {[op |-> "input", input |-> s] : s \in NameInputs}
    /\ ExtInit

Normalized(input, name, again, first) ==
    LET r == validate_and_normalize_name(name) IN
    [op |-> "validate_and_normalize_name", input |-> input, name |-> name,
     ok |-> r.ok, normalized |-> r.normalized, issues |-> r.issues,
     again |-> again, first |-> first]

\* validate_and_normalize_name(input)
ValidateAndNormalizeName ==
    /\ last' = Normalized(last.input, last.input, FALSE,
                          [ok |-> FALSE, normalized |-> <<>>])
    /\ UNCHANGED <<extVars, configVars, chainVars>>

\* validate_and_normalize_name applied to the name it has just returned.
NormalizeNormalized ==
    /\ last.op = "validate_and_normalize_name"
    /\ ~last.again
    /\ last' = Normalized(last.input, last.normalized, TRUE,
                          [ok |-> last.ok, normalized |-> last.normalized])
    /\ UNCHANGED <<extVars, configVars, chainVars>>

\* validate_name(input)
ValidateName ==
    /\ last' = [op |-> "validate_name", input |-> last.input,
                name |-> last.input, ret |-> validate_name(last.input)]
    /\ UNCHANGED <<extVars, configVars, chainVars>>

NextNames ==
    \/ ValidateAndNormalizeName
    \/ NormalizeNormalized
    \/ ValidateName

\* ------------------------------------- GlobalResolver.resolve_globally
MaxTime == 1000

\* The clock moves by just under, exactly, or just over the cache duration.
Ticks == {cache_duration - 1, cache_duration, cache_duration + 1}

RECURSIVE Flatten(_)
Flatten(logs) ==
    IF logs = <<>> THEN <<>> ELSE Head(logs) \o Flatten(Tail(logs))

GlobalFailures ==
    {{}} \cup {{c} : c \in GlobalCalls \cup {"m.resolver", "supportsInterface"}}

ErrorResult(msg, log) == [ret |-> [error |-> msg], calls |-> log, stored |-> FALSE]

\* What the call does when the cache does not answer (lines 403-437).
resolve_fresh(name, supports_ccip, response, F) ==
    IF "mainnet" \notin connections
    THEN ErrorResult("AttributeError", <<>>)
    ELSE
    LET r == Call("m.resolver", F) IN
    IF Raised(r) THEN ErrorResult("exception", r)
    ELSE IF ~hasResolver[name] THEN ErrorResult("No resolver set", r)
    ELSE
    LET s == Call("supportsInterface", F) IN
    IF Raised(s) THEN ErrorResult("exception", r \o s)
    ELSE
    LET available_networks ==
            SelectSeq(NetworkOrder, LAMBDA n : n \in connections)
        one == [n \in connections |->
                   resolve_on_network(name, n, supports_ccip, response, F)]
    IN  [ret |-> [name |-> name, supports_ccip |-> supports_ccip,
                  resolutions |-> [n \in connections |-> one[n].ret],
                  timestamp |-> now],
         calls |-> r \o s \o Flatten([i \in 1 .. Len(available_networks) |->
                                         one[available_networks[i]].calls]),
         stored |-> TRUE]

\* An entry exactly cache_duration old still answers.
resolve_globally_inclusive(name, supports_ccip, response, F) ==
    LET entry == resolution_cache[name] IN
    IF entry # NoEntry /\ now - entry.timestamp <= cache_duration
    THEN [ret |-> entry.data, calls |-> <<>>, stored |-> FALSE]
    ELSE resolve_fresh(name, supports_ccip, response, F)

resolve_globally(name, supports_ccip, response, F) ==
    LET entry == resolution_cache[name] IN
    IF entry # NoEntry /\ now - entry.timestamp < cache_duration
    THEN [ret |-> entry.data, calls |-> <<>>, stored |-> FALSE]
    ELSE resolve_fresh(name, supports_ccip, response, F)

ResolveGlobally(name) ==
    \E supports_ccip \in BOOLEAN, response \in {EmptyStr, Checksum(NumAddrs)},
       F \in GlobalFailures :
        LET r == resolve_globally(name, supports_ccip, response, F) IN
        /\ resolution_cache' =
               IF r.stored
               THEN [resolution_cache EXCEPT
                        ![name] = [data |-> r.ret, timestamp |-> now]]
               ELSE resolution_cache
        /\ last' = [op |-> "resolve_globally", name |-> name,
                    outcome |-> "return", ret |-> r.ret, calls |-> r.calls,
                    cached |-> resolution_cache[name], at |-> now]
        /\ UNCHANGED <<configVars, chainVars, nonceVars, activityVars, callVars, storeVars, now>>

\* Time passes.
Tick(d) ==
    /\ now + d <= MaxTime
    /\ now' = now + d
    /\ UNCHANGED <<configVars, chainVars, nonceVars, activityVars, callVars,
                   storeVars, resolution_cache, last>>

\* Somebody changes the address record of the name on chain.
RecordChanged(name, address) ==
    /\ hasResolver[name]
    /\ addr[name] # address
    /\ addr' = [addr EXCEPT ![name] = address]
    /\ UNCHANGED <<configVars, owner, hasResolver, text, available, last,
                   extVars>>

InitCache ==
    /\ credential = FALSE
    /\ envKey = FALSE
    /\ connections \in SUBSET NETWORK_CONFIGS
    /\ current_network = "mainnet"
    /\ owner = [n \in Names |-> ZeroAddr]
    /\ hasResolver \in [Names -> BOOLEAN]
    /\ text = [n \in Names |-> [k \in NETWORK_CONFIGS |-> EmptyStr]]
    /\ addr = [n \in Names |-> None]
    /\ available = [n \in Names |-> TRUE]
    /\ last = NoOp
    /\ ExtInit

NextCache ==
    \/ \E name \in Names : ResolveGlobally(name)
    \/ \E d \in Ticks : Tick(d)
    \/ \E name \in Names, address \in {None, Checksum(NumAddrs)} :
           RecordChanged(name, address)

\* ------------------------------------------------------------ ENSActivity
MaxEvents == 3

\* The data of an event: something json.dump can write, or something it
\* cannot (bytes, say), at which json.dump raises TypeError.
EventData == {"json", "bytes"}

Serializable(events) ==
    \A i \in 1 .. Len(events) : events[i].data # "bytes"

\* _export_activity: read the day file if it exists, append, rewrite. The
\* file is opened for writing, and so truncated, before json.dump streams
\* the list into it; an exception at any point is caught and printed.
export_activity(file, activity) ==
    IF file.state = "corrupt" THEN file
    ELSE LET activities == file.events \o <<activity>> IN
         IF Serializable(activities) THEN Json(activities) ELSE Corrupt

add_activity(name, event_type, data) ==
    LET activity == [timestamp |-> utcnow, type |-> event_type,
                     data |-> data]
        day == Day(utcnow)
    IN  [memory |-> Append(current_activities[name], activity),
         file |-> export_activity(files[name][day], activity),
         activity |-> activity, day |-> day]

AddActivity(name, data) ==
    /\ Len(current_activities[name]) < MaxEvents
    /\ LET r == add_activity(name, "AddrChanged", data) IN
       /\ current_activities' = [current_activities EXCEPT ![name] = r.memory]
       /\ files' = [files EXCEPT ![name][r.day] = r.file]
       /\ last' = [op |-> "add_activity", name |-> name,
                   activity |-> r.activity, day |-> r.day,
                   outcome |-> "return",
                   memory |-> current_activities[name],
                   file |-> files[name][r.day],
                   others |-> [d \in Days \ {r.day} |-> files[name][d]]]
    /\ UNCHANGED <<configVars, chainVars, nonceVars, cacheVars, storeVars, utcnow,
                   callVars>>

\* Half a day passes.
ClockTick ==
    /\ utcnow < MaxClock
    /\ utcnow' = utcnow + 1
    /\ UNCHANGED <<configVars, chainVars, nonceVars, cacheVars, storeVars,
                   current_activities, files, callVars, last>>

\* Python's None for a date bound.
NoBound == -1

\* The events of one day file that get_activities keeps. Stored timestamps
\* carry the UTC offset; comparing one with a bound that has no time zone
\* raises TypeError, which the except clause of the file swallows together
\* with the events of the file.
FromFile(file, start_date, end_date, aware) ==
    IF file.state # "json" THEN <<>>
    ELSE IF /\ ~aware
            /\ file.events # <<>>
            /\ (start_date # NoBound \/ end_date # NoBound)
    THEN <<>>
    ELSE SelectSeq(file.events,
                   LAMBDA a : /\ ~(start_date # NoBound
                                   /\ a.timestamp < start_date)
                              /\ ~(end_date # NoBound
                                   /\ a.timestamp > end_date))

\* The day files in sorted order, which is the order of their dates.
get_activities(name, start_date, end_date, aware) ==
    Flatten([i \in 1 .. Cardinality(Days) |->
                FromFile(files[name][i - 1], start_date, end_date, aware)])

GetActivities(name) ==
    \E start_date \in {NoBound} \cup 0 .. MaxClock,
       end_date \in {NoBound} \cup 0 .. MaxClock, aware \in BOOLEAN :
        /\ last' = [op |-> "get_activities", name |-> name,
                    start_date |-> start_date, end_date |-> end_date,
                    aware |-> aware, outcome |-> "return",
                    ret |-> get_activities(name, start_date, end_date, aware)]
        /\ UNCHANGED <<configVars, chainVars, extVars>>

InitActivity ==
    /\ credential = FALSE
    /\ envKey = FALSE
    /\ connections = {}
    /\ current_network = "mainnet"
    /\ owner = [n \in Names |-> ZeroAddr]
    /\ hasResolver = [n \in Names |-> FALSE]
    /\ text = [n \in Names |-> [k \in NETWORK_CONFIGS |-> EmptyStr]]
    /\ addr = [n \in Names |-> None]
    /\ available = [n \in Names |-> TRUE]
    /\ last = NoOp
    /\ ExtInit

NextActivity ==
    \/ \E name \in Names, data \in EventData : AddActivity(name, data)
    \/ ClockTick
    \/ \E name \in Names : GetActivities(name)

\* ----------------------------- add_activity, one file access at a time
EventTypes == {"AddrChanged", "TextChanged"}

\* Lines 316-327: the event is built and appended to the in-memory list,
\* and _export_activity names the day file.
StartAdd(c, name, event_type) ==
    /\ tpc[c] = "idle"
    /\ Len(current_activities[name]) < MaxEvents
    /\ LET activity == [timestamp |-> utcnow, type |-> event_type,
                        data |-> "json"] IN
       /\ current_activities' =
              [current_activities EXCEPT ![name] = Append(@, activity)]
       /\ tevent' = [tevent EXCEPT ![c] = [name |-> name,
                                           activity |-> activity,
                                           day |-> Day(utcnow)]]
    /\ tpc' = [tpc EXCEPT ![c] = "read"]
    /\ UNCHANGED <<configVars, chainVars, nonceVars, cacheVars, storeVars, files,
                   utcnow, tlocal, last>>

\* Lines 340-346: the list is read from the day file, or empty without one.
ReadFile(c) ==
    /\ tpc[c] = "read"
    /\ LET file == files[tevent[c].name][tevent[c].day] IN
       IF file.state = "corrupt"
       THEN /\ tpc' = [tpc EXCEPT ![c] = "idle"]
            /\ UNCHANGED tlocal
       ELSE /\ tpc' = [tpc EXCEPT ![c] = "write"]
            /\ tlocal' = [tlocal EXCEPT
                             ![c] = Append(file.events, tevent[c].activity)]
    /\ UNCHANGED <<configVars, chainVars, nonceVars, cacheVars, storeVars,
                   activityVars, tevent, last>>

\* Lines 348-349: the day file is rewritten with the list of this call.
WriteFile(c) ==
    /\ tpc[c] = "write"
    /\ files' = [files EXCEPT ![tevent[c].name][tevent[c].day] =
                                  IF Serializable(tlocal[c])
                                  THEN Json(tlocal[c]) ELSE Corrupt]
    /\ tpc' = [tpc EXCEPT ![c] = "idle"]
    /\ last' = [op |-> "add_activity", name |-> tevent[c].name,
                activity |-> tevent[c].activity, day |-> tevent[c].day,
                outcome |-> "return", caller |-> c]
    /\ UNCHANGED <<configVars, chainVars, nonceVars, cacheVars, storeVars,
                   current_activities, utcnow, tevent, tlocal>>

\* Half a day passes while calls may be in flight.
RaceTick ==
    /\ utcnow < MaxClock
    /\ utcnow' = utcnow + 1
    /\ UNCHANGED <<configVars, chainVars, nonceVars, cacheVars, storeVars,
                   current_activities, files, callVars, last>>

NextRace ==
    \/ \E c \in Callers, name \in Names, event_type \in EventTypes :
           StartAdd(c, name, event_type)
    \/ \E c \in Callers : ReadFile(c)
    \/ \E c \in Callers : WriteFile(c)
    \/ RaceTick

\* ---------------------------------------------------------- ConfigManager
ProviderNames == {"infura", "alchemy"}
AccountNames == {"main", "spare"}

StoreOp(op, name, ret) ==
    [op |-> op, name |-> name, outcome |-> "return", ret |-> [value |-> ret]]

StoreFrame == UNCHANGED <<configVars, chainVars, nonceVars, cacheVars,
                          activityVars, callVars>>

AddProvider(name) ==
    /\ providers' = providers \cup {name}
    /\ last' = StoreOp("add_provider", name, TRUE)
    /\ UNCHANGED <<active_provider, accounts, active_account>>
    /\ StoreFrame

\* The entry is deleted; config['active_provider'] is not looked at.
RemoveProvider(name) ==
    /\ IF name \in providers
       THEN /\ providers' = providers \ {name}
            /\ last' = StoreOp("remove_provider", name, TRUE)
       ELSE /\ UNCHANGED providers
            /\ last' = StoreOp("remove_provider", name, FALSE)
    /\ UNCHANGED <<active_provider, accounts, active_account>>
    /\ StoreFrame

SetActiveProvider(name) ==
    /\ IF name \in providers
       THEN /\ active_provider' = name
            /\ last' = StoreOp("set_active_provider", name, TRUE)
       ELSE /\ UNCHANGED active_provider
            /\ last' = StoreOp("set_active_provider", name, FALSE)
    /\ UNCHANGED <<providers, accounts, active_account>>
    /\ StoreFrame

\* _derive_address raises for a string that is no private key.
AddAccount(name, valid_key) ==
    /\ IF valid_key
       THEN /\ accounts' = accounts \cup {name}
            /\ last' = StoreOp("add_account", name, TRUE)
       ELSE /\ UNCHANGED accounts
            /\ last' = StoreOp("add_account", name, FALSE)
    /\ UNCHANGED <<providers, active_provider, active_account>>
    /\ StoreFrame

RemoveAccount(name) ==
    /\ IF name \in accounts
       THEN /\ accounts' = accounts \ {name}
            /\ last' = StoreOp("remove_account", name, TRUE)
       ELSE /\ UNCHANGED accounts
            /\ last' = StoreOp("remove_account", name, FALSE)
    /\ UNCHANGED <<providers, active_provider, active_account>>
    /\ StoreFrame

SetActiveAccount(name) ==
    /\ IF name \in accounts
       THEN /\ active_account' = name
            /\ last' = StoreOp("set_active_account", name, TRUE)
       ELSE /\ UNCHANGED active_account
            /\ last' = StoreOp("set_active_account", name, FALSE)
    /\ UNCHANGED <<providers, active_provider, accounts>>
    /\ StoreFrame

InitStore ==
    /\ credential = FALSE
    /\ envKey = FALSE
    /\ connections = {}
    /\ current_network = "mainnet"
    /\ owner = [n \in Names |-> ZeroAddr]
    /\ hasResolver = [n \in Names |-> FALSE]
    /\ text = [n \in Names |-> [k \in NETWORK_CONFIGS |-> EmptyStr]]
    /\ addr = [n \in Names |-> None]
    /\ available = [n \in Names |-> TRUE]
    /\ last = NoOp
    /\ ExtInit

NextStore ==
    \/ \E name \in ProviderNames : AddProvider(name)
    \/ \E name \in ProviderNames : RemoveProvider(name)
    \/ \E name \in ProviderNames : SetActiveProvider(name)
    \/ \E name \in AccountNames, valid_key \in BOOLEAN :
           AddAccount(name, valid_key)
    \/ \E name \in AccountNames : RemoveAccount(name)
    \/ \E name \in AccountNames : SetActiveAccount(name)

\* ------------------- set_network_address, one transport call at a time
InitNonce ==
    /\ credential = FALSE
    /\ envKey \in BOOLEAN
    /\ connections \in {{"mainnet"}, NETWORK_CONFIGS}
    /\ current_network = "mainnet"
    /\ owner = [n \in Names |-> ZeroAddr]
    /\ hasResolver \in [Names -> BOOLEAN]
    /\ text = [n \in Names |-> [k \in NETWORK_CONFIGS |-> EmptyStr]]
    /\ addr = [n \in Names |-> None]
    /\ available = [n \in Names |-> TRUE]
    /\ last = NoOp
    /\ ExtInit

Finish(w, pair) ==
    /\ wpc' = [wpc EXCEPT ![w] = "done"]
    /\ wret' = [wret EXCEPT ![w] = pair]

\* Lines 228-233: the address test and the resolver lookup.
Begin(w, name, network, address) ==
    \E fail \in BOOLEAN :
        /\ wpc[w] = "idle"
        /\ wcall' = [wcall EXCEPT ![w] = [name |-> name, network |-> network,
                                          address |-> address]]
        /\ IF ~is_address(address) THEN Finish(w, Fail("Invalid address"))
           ELSE IF "mainnet" \notin connections \/ fail
           THEN Finish(w, Fail("Error setting address"))
           ELSE IF ~hasResolver[name] THEN Finish(w, Fail("No resolver set"))
           ELSE /\ wpc' = [wpc EXCEPT ![w] = "nonce"]
                /\ UNCHANGED wret
        /\ UNCHANGED <<cacheVars, activityVars, callVars, storeVars,
                   configVars, chainVars, last, wnonce, sent, txCount,
                       pending, receipt>>

\* Every call waits until no other call is between its nonce read and its
\* submission.
FetchNonce_serialized(w) ==
    \E fail \in BOOLEAN :
        /\ wpc[w] = "nonce"
        /\ \A v \in Writers \ {w} : wpc[v] # "send"
        /\ IF fail
           THEN Finish(w, Fail("Error setting address")) /\ UNCHANGED wnonce
           ELSE /\ wnonce' = [wnonce EXCEPT ![w] = txCount]
                /\ wpc' = [wpc EXCEPT ![w] = "send"]
                /\ UNCHANGED wret
        /\ UNCHANGED <<cacheVars, activityVars, callVars, storeVars,
                   configVars, chainVars, last, wcall, sent, txCount,
                       pending, receipt>>

\* Lines 243-245: eth.get_transaction_count(default_account), the number of
\* transactions mined from the account, becomes the nonce of the
\* transaction that is built.
FetchNonce(w) ==
    \E fail \in BOOLEAN :
        /\ wpc[w] = "nonce"
        /\ IF fail
           THEN Finish(w, Fail("Error setting address")) /\ UNCHANGED wnonce
           ELSE /\ wnonce' = [wnonce EXCEPT ![w] = txCount]
                /\ wpc' = [wpc EXCEPT ![w] = "send"]
                /\ UNCHANGED wret
        /\ UNCHANGED <<cacheVars, activityVars, callVars, storeVars,
                   configVars, chainVars, last, wcall, sent, txCount,
                       pending, receipt>>

\* Lines 248-252: sign with ETH_PRIVATE_KEY and send. The node refuses a
\* nonce that is already mined; for a nonce that a pending transaction
\* holds it either refuses the newcomer or lets it stand beside the other.
Send(w) ==
    /\ wpc[w] = "send"
    /\ IF ~envKey
       THEN /\ Finish(w, Fail("Error setting address"))
            /\ UNCHANGED <<sent, pending>>
       ELSE /\ sent' = sent \cup {w}
            /\ \E accepted \in BOOLEAN :
                 /\ wnonce[w] < txCount => ~accepted
                 /\ (wnonce[w] >= txCount
                     /\ \A v \in pending : wnonce[v] # wnonce[w]) => accepted
                 /\ IF accepted
                    THEN /\ pending' = pending \cup {w}
                         /\ wpc' = [wpc EXCEPT ![w] = "wait"]
                         /\ UNCHANGED wret
                    ELSE /\ Finish(w, Fail("Error setting address"))
                         /\ UNCHANGED pending
    /\ UNCHANGED <<cacheVars, activityVars, callVars, storeVars,
                   configVars, chainVars, last, wcall, wnonce, txCount,
                   receipt>>

Dropped == 2

\* The chain mines the pending transaction of w; the pending transactions
\* with the same nonce are dropped.
Mine(w) ==
    \E status \in ReceiptStatus :
        /\ w \in pending
        /\ wnonce[w] = txCount
        /\ txCount < MaxTx
        /\ txCount' = txCount + 1
        /\ pending' = {v \in pending : wnonce[v] # txCount}
        /\ receipt' = [v \in Writers |->
                          IF v = w THEN status
                          ELSE IF v \in pending /\ wnonce[v] = txCount
                          THEN Dropped ELSE receipt[v]]
        /\ IF status = 1
           THEN text' = [text EXCEPT ![wcall[w].name][wcall[w].network] =
                                         wcall[w].address]
           ELSE UNCHANGED text
        /\ UNCHANGED <<cacheVars, activityVars, callVars, storeVars,
                   configVars, owner, hasResolver, addr, available, last,
                       wpc, wcall, wnonce, wret, sent>>

\* Lines 253-257: wait_for_transaction_receipt, which times out for a
\* dropped transaction, and the test of the receipt status.
Wait(w) ==
    /\ wpc[w] = "wait"
    /\ receipt[w] # -1
    /\ Finish(w, IF receipt[w] = Dropped THEN Fail("Error setting address")
                 ELSE IF receipt[w] = 1
                 THEN Ok("Successfully set network address")
                 ELSE Fail("Transaction failed"))
    /\ UNCHANGED <<cacheVars, activityVars, callVars, storeVars,
                   configVars, chainVars, last, wcall, wnonce, sent, txCount,
                   pending, receipt>>

NextNonce ==
    \/ \E w \in Writers, name \in Names, network \in NETWORK_CONFIGS,
          address \in AddrArgs : Begin(w, name, network, address)
    \/ \E w \in Writers : FetchNonce(w)
    \/ \E w \in Writers : Send(w)
    \/ \E w \in Writers : Mine(w)
    \/ \E w \in Writers : Wait(w)

NextResolve ==
    \/ \E network \in NETWORK_CONFIGS : SetCurrentNetwork(network)
    \/ \E name \in Names, network \in NETWORK_CONFIGS \cup {NoNetwork} :
           ResolveName(name, network)
    \/ \E name \in Names, network \in NETWORK_CONFIGS :
           ResolveOnNetwork(name, network)
    \/ \E address \in ReverseArgs : ReverseResolve(address)
    \/ \E name \in Names : GetAllNetworkAddresses(name)
    \/ \E names \in NameLists : BatchResolve(names)
    \/ \E name \in Names : ValidateNetworkSetup(name)

NextWriter ==
    \/ \E name \in Names : RegisterName(name)
    \/ \E name \in Names, to_address \in AddrArgs :
           TransferName(name, to_address)
    \/ \E name \in Names, address \in AddrArgs : SetAddress(name, address)
    \/ \E domain \in Names, owner_address \in AddrArgs \cup {None} :
           CreateSubdomain(domain, owner_address)
    \/ \E domain \in Names, subdomains \in SubLists,
          owner_address \in {None, Checksum(NumAddrs)} :
           BulkCreateSubdomains(domain, subdomains, owner_address)
    \/ \E name \in Names, network \in NETWORK_CONFIGS, address \in AddrArgs :
           SetNetworkAddress(name, network, address)

SpecResolve == InitResolve /\ [][NextResolve]_vars

SpecWriter == InitWriter /\ [][NextWriter]_vars

SpecNames == InitNames /\ [][NextNames]_vars

SpecNonce == InitNonce /\ [][NextNonce]_vars

SpecCache == InitCache /\ [][NextCache]_vars

SpecActivity == InitActivity /\ [][NextActivity]_vars

SpecRace == InitActivity /\ [][NextRace]_vars

SpecStore == InitStore /\ [][NextStore]_vars

\* ================================================================ claims
WriterOps ==
    {"register_name", "transfer_name", "set_address", "create_subdomain",
     "set_network_address"}

IsWrite == last.op \in WriterOps
IsResolve == last.op = "resolve_name"
IsGlobal == last.op = "_resolve_on_network"

SomeCallRaised == \E i \in 1 .. Len(last.calls) : last.calls[i][2] = "raise"

OwnershipMessages ==
    {"You don't own this name", "You don't own the parent domain"}

\* C1: a write against a name whose on-chain owner is not the signer returns
\* (false, ownership message) and neither signs nor submits a transaction.
C1_NonOwnerWriteRejected ==
    (/\ last.op \in WriterOps \ {"register_name"}
     /\ last.owner # account_address)
    => /\ last.outcome = "return"
       /\ last.ret.success = FALSE
       /\ last.ret.message \in OwnershipMessages
       /\ ~Called(last.calls, "sign")
       /\ ~Called(last.calls, "send")

\* C2: every mutating operation on a manager without a signing credential
\* returns (false, "No account configured"): it does not raise and it does
\* not submit a transaction.
C2_NoCredentialReported ==
    (IsWrite /\ ~credential /\ ~envKey)
    => /\ last.outcome = "return"
       /\ last.ret = Fail("No account configured")
       /\ ~Called(last.calls, "send")

\* The record of the requested network, and whether the resolution read it.
RequestedRecord == text[last.name][last.network]
RecordRead ==
    /\ Succeeded(last.calls, "m.text")
    /\ Truthy(RequestedRecord)
    /\ is_address(RequestedRecord)

\* C3: resolve never returns a string that fails the address-format check,
\* on any path: network-specific record, default canonical resolution,
\* cross-chain read, canonical fallback.
C3_ResolvedAddressValid ==
    /\ IsResolve => (last.ret = None \/ is_address(last.ret))
    /\ (IsGlobal /\ "address" \in DOMAIN last.ret)
       => (last.ret.address = None \/ is_address(last.ret.address))

\* A resolution returned an address although the record of the requested
\* network is not an address.
C3_Witness ==
    /\ IsResolve \/ (IsGlobal /\ "address" \in DOMAIN last.ret)
    /\ RequestedRecord = Malformed
    /\ Succeeded(last.calls, "m.text")
    /\ IF IsResolve THEN Truthy(last.ret) ELSE Truthy(last.ret.address)

\* C4: when the record network.<id>.address of the requested network is read
\* and is a valid address, resolve returns that address at once: neither the
\* cross-chain read nor the canonical-chain resolution is consulted.
C4_NetworkRecordFirst ==
    ((IsResolve \/ IsGlobal) /\ RecordRead)
    => /\ ~Called(last.calls, "ccip")
       /\ ~Called(last.calls, "m.address")
       /\ ~Called(last.calls, "w3.address")
       /\ IF IsResolve
          THEN /\ last.ret.id = RequestedRecord.id
               /\ last.ret = to_checksum_address(RequestedRecord)
          ELSE /\ last.ret.resolution_type = "network_specific"
               /\ last.ret.address.id = RequestedRecord.id
               /\ last.ret.address = to_checksum_address(RequestedRecord)

\* polygon has a lower-case record, the canonical chain resolves to the zero
\* address: the polygon resolution is the record, in checksum form.
C4_Witness ==
    /\ IsResolve
    /\ last.network = "polygon"
    /\ RequestedRecord = Lower(NumAddrs)
    /\ addr[last.name] = ZeroAddr
    /\ last.ret = Checksum(NumAddrs)

\* C5: on a non-canonical network, when neither the network-specific record
\* nor the cross-chain read yields an address, resolve returns the address
\* of the canonical-chain resolution when there is one, and none only when
\* that resolution is empty too.
C5_FallsBackToCanonical ==
    (/\ IsResolve
     /\ last.network # "mainnet"
     /\ "mainnet" \in connections
     /\ ~SomeCallRaised
     /\ ~RecordRead
     /\ Truthy(addr[last.name]))
    => last.ret = addr[last.name]

\* C6: on the canonical chain without a network-specific record, resolve
\* returns the default lookup only if it is non-zero: resolve never returns
\* the zero address.
C6_NeverZeroAddress ==
    IsResolve => last.ret # ZeroAddr

\* C7: resolve never raises; a transport exception in one step counts as
\* that step yielding nothing and the remaining steps are still tried, so
\* none comes back only when every step yielded nothing: with a non-zero
\* canonical address, none requires that the canonical lookup was tried
\* and failed.
C7_NoneOnlyOnExhaustion ==
    IsResolve =>
        /\ last.outcome = "return"
        /\ (/\ SomeCallRaised
            /\ last.ret = None
            /\ Truthy(addr[last.name])
            /\ addr[last.name] # ZeroAddr)
           => \/ <<"m.address", "raise">> \in
                    {last.calls[i] : i \in 1 .. Len(last.calls)}
              \/ <<"w3.address", "raise">> \in
                    {last.calls[i] : i \in 1 .. Len(last.calls)}

\* C8: register_name on a name whose availability check is false returns
\* (false, "Name is not available") without reading the rent price and
\* without building, signing or submitting a transaction.
C8_UnavailableRejected ==
    (last.op = "register_name" /\ ~last.available)
    => /\ last.outcome = "return"
       /\ last.ret = Fail("Name is not available")
       /\ \A c \in {"rentPrice", "build", "sign", "send"} :
              ~Called(last.calls, c)

\* C9 (as stated): an outcome with success = true carries a non-empty
\* tx_hash.
C9_SuccessCarriesTxHash ==
    (IsWrite /\ last.outcome = "return" /\ last.ret.success)
    => /\ "tx_hash" \in DOMAIN last.ret
       /\ last.ret.tx_hash # ""

\* C9 (amended): an outcome with success = true is the pair (true, message)
\* and is returned only after send_raw_transaction handed back a non-empty
\* transaction hash; the hash stays inside the operation.
C9_SuccessAfterTxHash ==
    (IsWrite /\ last.outcome = "return" /\ last.ret.success)
    => /\ DOMAIN last.ret = {"success", "message"}
       /\ Succeeded(last.calls, "send")
       /\ last.tx_hash # ""

C9_Witness ==
    /\ IsWrite
    /\ last.outcome = "return"
    /\ last.ret.success
    /\ last.tx_hash = TxHash

LifecycleCalls ==
    {"rentPrice", "nonce", "gasPrice", "build", "sign", "send", "wait"}

LifecycleRaised ==
    \E i \in 1 .. Len(last.calls) :
        last.calls[i][1] \in LifecycleCalls /\ last.calls[i][2] = "raise"

FailureMessages ==
    {"Transaction failed", "Error registering name",
     "Error transferring name", "Error setting address",
     "Error creating subdomain"}

\* C10: a write returns (true, message) exactly when a transaction was
\* submitted and its receipt has status success; a receipt with another
\* status, or an exception while building, signing, submitting or waiting,
\* gives (false, failure message).
C10_SuccessIffReceiptOk ==
    IsWrite =>
        /\ (last.outcome = "return" /\ last.ret.success)
           <=> (/\ Succeeded(last.calls, "send")
                /\ Succeeded(last.calls, "wait")
                /\ last.status = 1)
        /\ (LifecycleRaised \/ last.status = 0)
           => /\ last.outcome = "return"
              /\ last.ret.success = FALSE
              /\ last.ret.message \in FailureMessages

\* A receipt with status 0 came back and the caller was told so.
C10_Witness ==
    /\ IsWrite
    /\ Succeeded(last.calls, "wait")
    /\ last.status = 0
    /\ last.ret = Fail("Transaction failed")


\* The number of times the operation called send_raw_transaction.
Submissions ==
    Cardinality({i \in 1 .. Len(last.calls) : last.calls[i][1] = "send"})

SubmissionFailed ==
    \/ <<"send", "raise">> \in {last.calls[i] : i \in 1 .. Len(last.calls)}
    \/ <<"wait", "raise">> \in {last.calls[i] : i \in 1 .. Len(last.calls)}
    \/ last.status = 0

\* C11: no write operation retries: one invocation submits at most one
\* transaction, and after a failed submission or a failed receipt it returns
\* the failure to the caller, the failing call being the last one it made.
C11_NoRetry ==
    IsWrite =>
        /\ Submissions <= 1
        /\ SubmissionFailed
           => /\ last.outcome = "return"
              /\ last.ret.success = FALSE
              /\ Submissions = 1
              /\ last.calls[Len(last.calls)][1] \in {"send", "wait"}

\* send_raw_transaction raised and the caller got the failure.
C11_Witness ==
    /\ IsWrite
    /\ last.calls # <<>>
    /\ last.calls[Len(last.calls)] = <<"send", "raise">>
    /\ last.ret = Fail("Error setting address")


ValidationMessages ==
    {"Invalid target address", "Invalid address", "Invalid owner address"}

\* C12: a write given a malformed target or owner address returns its
\* validation failure without any chain read (owner, resolver, nonce) and
\* without submitting a transaction.
C12_ValidationBeforeNetwork ==
    (/\ last.op \in WriterOps \ {"register_name"}
     /\ last.arg = Malformed)
    => /\ last.outcome = "return"
       /\ last.ret.success = FALSE
       /\ last.ret.message \in ValidationMessages
       /\ last.calls = <<>>


\* C13: reverse_resolve returns none for every address that fails the
\* address-format check, without any network lookup.
C13_InvalidAddressNoLookup ==
    (last.op = "reverse_resolve" /\ ~is_address(last.arg))
    => /\ last.outcome = "return"
       /\ last.ret = NoName
       /\ last.calls = <<>>

C13_Witness ==
    /\ last.op = "reverse_resolve"
    /\ last.arg = Malformed
    /\ last.ret = NoName


IsGetAll == last.op = "get_all_network_addresses"

\* What the resolution of network n yields when no call fails.
Undisturbed(name, n) ==
    IF "mainnet" \notin connections THEN None
    ELSE IF hasResolver[name] /\ Truthy(text[name][n]) /\ is_address(text[name][n])
    THEN to_checksum_address(text[name][n])
    ELSE IF n = "mainnet" THEN addr[name] ELSE None

\* The resolution of network n ended in an exception.
NetworkFailed(n) ==
    /\ Raised(last.logs[n])
    /\ last.logs[n][Len(last.logs[n])][1] \in {"m.resolver", "m.address"}

EntriesWellFormed ==
    /\ \A n \in DOMAIN last.ret :
           last.ret[n] = None \/ is_address(last.ret[n])
    /\ \A n \in DOMAIN last.ret \cap DOMAIN last.logs :
           /\ NetworkFailed(n) => last.ret[n] = None
           /\ (\A i \in 1 .. Len(last.logs[n]) : last.logs[n][i][2] = "ok")
              => last.ret[n] = Undisturbed(last.name, n)

\* C14 (as stated): the key set of get_all_network_addresses(name) is
\* exactly the set of currently connected networks, each value an address
\* or none, and a failure on one network only makes that entry none.
C14_KeysAreAvailable ==
    IsGetAll =>
        /\ DOMAIN last.ret = connections
        /\ EntriesWellFormed

\* C14 (amended): the key set is exactly the set of configured networks,
\* the keys of NETWORK_CONFIGS, connected or not; each value is an address
\* or none, and a failure on one network only makes that entry none.
C14_KeysAreConfigured ==
    IsGetAll =>
        /\ last.outcome = "return"
        /\ DOMAIN last.ret = NETWORK_CONFIGS
        /\ DOMAIN last.logs = NETWORK_CONFIGS
        /\ EntriesWellFormed

\* Only mainnet is connected, the mainnet resolution failed, and the map
\* still has the polygon address next to the none of mainnet.
C14_Witness ==
    /\ IsGetAll
    /\ connections = {"mainnet"}
    /\ DOMAIN last.ret = NETWORK_CONFIGS
    /\ NetworkFailed("mainnet")
    /\ last.ret["mainnet"] = None
    /\ last.ret["polygon"] = Checksum(NumAddrs)


\* C15: for every list of names batch_resolve completes and returns a
\* mapping with as many entries as the list has names, in which every input
\* name is mapped to the resolution result of that name.
C15_BatchResolveComplete ==
    last.op = "batch_resolve" =>
        /\ last.outcome = "return"
        /\ Cardinality(DOMAIN last.ret) = Len(last.names)
        /\ \A i \in 1 .. Len(last.names) :
               /\ last.names[i] \in DOMAIN last.ret
               /\ last.ret[last.names[i]] = last.tasks[i]


\* C16: a bulk operation invokes the single-item operation once per input,
\* in input order, and returns one outcome per input in the same order; a
\* failed item does not stop the remaining items from being attempted.
C16_BulkOneOutcomePerInput ==
    last.op = "bulk_create_subdomains" =>
        /\ last.outcome = "return"
        /\ last.attempted = Len(last.subdomains)
        /\ Len(last.ret) = Len(last.subdomains)
        /\ \A i \in 1 .. Len(last.subdomains) :
               last.ret[i].subdomain = last.subdomains[i]


IsNormalize == last.op = "validate_and_normalize_name"

Rejected(issue) ==
    /\ ~last.ok
    /\ \E i \in 1 .. Len(last.issues) : last.issues[i] = issue

\* C17: for every string that contains '..' or '--', or that starts or ends
\* with '-', validate_and_normalize_name returns ok = false and lists the
\* issue of that violation.
C17_SeparatorViolationsReported ==
    IsNormalize =>
        /\ contains(last.name, DotDot) => Rejected(ConsecutiveDots)
        /\ contains(last.name, HyphenHyphen) => Rejected(ConsecutiveHyphens)
        /\ startswith(last.name, Hyphen) \/ endswith(last.name, Hyphen)
               => Rejected(EdgeHyphen)

Separators == {"-", "."}

\* The rules of the Name data model.
NameRules(n) ==
    /\ n = str_lower(n)
    /\ endswith(n, DotEth)
    /\ Len(n) - Len(DotEth) >= 3
    /\ {n[i] : i \in 1 .. Len(n)} \subseteq allowed_chars
    /\ ~contains(n, DotDot)
    /\ ~contains(n, HyphenHyphen)
    /\ n[1] \notin Separators
    /\ n[Len(n)] \notin Separators
    /\ \A i \in 1 .. Len(split(n, ".")) : Len(split(n, ".")[i]) <= 63

\* C18: whenever validate_and_normalize_name returns ok = true, the
\* normalized name satisfies every rule of the Name data model.
C18_OkImpliesNameRules ==
    IsNormalize /\ last.ok => NameRules(last.normalized)

\* A valid name: one whose lower-case form, with the suffix put on when
\* missing, satisfies the rules of the Name data model.
ValidName(n) == NameRules(with_suffix(str_lower(n)))

\* C19: for every valid name N validate_and_normalize_name(N) has ok = true,
\* and applied to the normalized name it has returned it gives ok = true
\* with that same string.
C19_NormalizeIdempotent ==
    IsNormalize =>
        /\ ~last.again /\ ValidName(last.name) => last.ok
        /\ last.again /\ ValidName(last.input) =>
               /\ last.first.ok
               /\ last.name = last.first.normalized
               /\ last.ok
               /\ last.normalized = last.first.normalized

\* A valid mixed-case name with an upper-case suffix was normalized, and
\* the result normalized again.
C19_Witness ==
    /\ IsNormalize
    /\ last.again
    /\ ValidName(last.input)
    /\ endswith(last.input, <<".", "E", "T", "H">>)
    /\ last.input[1] = "E"
    /\ last.ok
    /\ last.normalized # last.input

Labels(n) == {split(n, ".")[i] : i \in 1 .. Len(split(n, "."))}

WellFormed(n) ==
    /\ endswith(n, DotEth)
    /\ {n[i] : i \in 1 .. Len(n)} \subseteq allowed_chars
    /\ ~contains(n, HyphenHyphen)
    /\ \A l \in Labels(n) : l # <<>> /\ l[1] # "-" /\ l[Len(l)] # "-"

IllFormed(n) ==
    \/ n = <<>>
    \/ ~contains(n, Dot)
    \/ <<>> \in Labels(n)
    \/ ~({n[i] : i \in 1 .. Len(n)} \subseteq allowed_chars)
    \/ \E l \in Labels(n) : l # <<>> /\ (l[1] = "-" \/ l[Len(l)] = "-")

\* C20: validate_name accepts well-formed names and rejects the empty
\* string, a name without a dot, a name with an empty label, a name with a
\* character outside lower-case alphanumerics, hyphen and dot, and a name
\* in which a label starts or ends with a hyphen.
C20_ValidateName ==
    last.op = "validate_name" =>
        /\ WellFormed(last.name) => last.ret
        /\ IllFormed(last.name) => ~last.ret


\* C21: no exception crosses the public boundary: when the underlying
\* transport raises, a public operation (validate_network_setup among them)
\* returns a typed result instead of propagating the exception.
C21_NoExceptionCrosses ==
    /\ "calls" \in DOMAIN last
    /\ \E i \in 1 .. Len(last.calls) : last.calls[i][2] = "raise"
    => last.outcome = "return"


\* C22: set_current_network(network) returns true and makes the network
\* current only if it is in the connection set; otherwise it returns false
\* and leaves the current network and the connection set unchanged.
C22_SetCurrentOnlyIfLive ==
    [][last'.op = "set_current_network" =>
          /\ last'.ret.value = (last'.network \in connections)
          /\ connections' = connections
          /\ current_network' = IF last'.network \in connections
                                THEN last'.network ELSE current_network
      ]_vars

\* The current network was moved to a connected network other than mainnet.
C22_Witness ==
    /\ last.op = "set_current_network"
    /\ last.ret.value
    /\ last.network = "polygon"
    /\ current_network = "polygon"
    /\ "polygon" \in connections


\* C23: writes from one signer are not serialized: a call is never held
\* back from reading the transaction count or from submitting by another
\* call in flight, so two calls that interleave between the read and the
\* submission both submit a transaction with the same nonce.
C23_WritesNotSerialized ==
    \A w \in Writers :
        /\ wpc[w] = "nonce" => ENABLED FetchNonce(w)
        /\ wpc[w] = "send" => ENABLED Send(w)
        /\ w \in sent => wnonce[w] \in 0 .. txCount

\* Two calls have submitted transactions that carry the same nonce.
C23_Witness ==
    \E v, w \in Writers :
        /\ v # w
        /\ {v, w} \subseteq sent
        /\ wnonce[v] = wnonce[w]


OwnerGatedOps == {"set_address", "transfer_name", "create_subdomain"}

\* C24: once a name is owned by another account (as it is after a
\* transfer), every set_address, transfer_name or create_subdomain of the
\* signer for it returns (false, ownership message) and submits nothing;
\* and transfer_name succeeds only if the signer owned the name and the
\* target address is well formed.
C24_NoWriteAfterTransfer ==
    /\ (last.op \in OwnerGatedOps /\ last.owner # account_address)
       => /\ last.outcome = "return"
          /\ ~last.ret.success
          /\ last.ret.message \in OwnershipMessages
          /\ ~Called(last.calls, "send")
    /\ (last.op = "transfer_name" /\ last.outcome = "return"
        /\ last.ret.success)
       => /\ last.owner = account_address
          /\ is_address(last.arg)


IsGlobal_ == last.op = "resolve_globally"

\* The entry the call found was stored less than cache_duration ago.
FoundFresh ==
    /\ last.cached # NoEntry
    /\ last.at - last.cached.timestamp < cache_duration

AnsweredFromCache == last.calls = <<>> /\ last.ret = last.cached.data

\* C25 (as stated): resolve_globally returns the stored result without a
\* lookup if and only if the entry is less than 300 seconds old; otherwise
\* a fresh resolution is performed and stored with a new timestamp.
C25_CacheEvictedByTime ==
    IsGlobal_ =>
        /\ FoundFresh <=> AnsweredFromCache
        /\ ~FoundFresh =>
               resolution_cache[last.name] =
                   [data |-> last.ret, timestamp |-> last.at]

\* C25 (amended): the stored result is returned without a lookup if and
\* only if the entry is less than 300 seconds old; otherwise the name is
\* resolved afresh, and the result is stored with a new timestamp when the
\* resolution succeeds, while an error result is returned without being
\* stored and leaves the cache as it was.
C25_CacheEvictedByTimeOnSuccess ==
    IsGlobal_ =>
        /\ FoundFresh <=> AnsweredFromCache
        /\ FoundFresh => resolution_cache[last.name] = last.cached
        /\ ~FoundFresh =>
               IF "error" \in DOMAIN last.ret
               THEN resolution_cache[last.name] = last.cached
               ELSE /\ Called(last.calls, "m.resolver")
                    /\ last.ret.timestamp = last.at
                    /\ resolution_cache[last.name] =
                           [data |-> last.ret, timestamp |-> last.at]

\* An entry exactly cache_duration old was found and replaced by a fresh
\* resolution.
C25_Witness ==
    /\ IsGlobal_
    /\ last.cached # NoEntry
    /\ last.at - last.cached.timestamp = cache_duration
    /\ "error" \notin DOMAIN last.ret
    /\ resolution_cache[last.name].timestamp = last.at


\* The events of the in-memory list that fall on day d.
AddedOn(name, d) ==
    SelectSeq(current_activities[name], LAMBDA a : Day(a.timestamp) = d)

\* C26: the activity log is append-only: add_activity appends exactly one
\* event to the in-memory list of the name and to the current day file,
\* after the events stored before and without touching them; after any
\* sequence of sequential calls each day file holds the events added on
\* that day in call order.
C26_ActivityAppendOnly ==
    /\ last.op = "add_activity" =>
          /\ current_activities[last.name]
                 = Append(last.memory, last.activity)
          /\ files[last.name][last.day]
                 = Json(Append(last.file.events, last.activity))
          /\ \A d \in Days \ {last.day} :
                 files[last.name][d] = last.others[d]
    /\ \A n \in Names, d \in Days :
          AddedOn(n, d) # <<>> => files[n][d] = Json(AddedOn(n, d))

InRange(a, start_date, end_date) ==
    /\ start_date # NoBound => start_date <= a.timestamp
    /\ end_date # NoBound => a.timestamp <= end_date

\* C27: get_activities(name, start, end) returns, in day-file order and in
\* stored order within each file, exactly the events with
\* start <= t <= end, an absent bound being unbounded; a corrupt day file
\* is skipped and the events of the other day files are still returned.
C27_ActivitiesInRange ==
    last.op = "get_activities" =>
        last.ret =
            Flatten([i \in 1 .. Cardinality(Days) |->
                LET file == files[last.name][i - 1] IN
                IF file.state # "json" THEN <<>>
                ELSE SelectSeq(file.events,
                               LAMBDA a : InRange(a, last.start_date,
                                                  last.end_date))])


CountIn(events, e) ==
    Cardinality({i \in 1 .. Len(events) : events[i] = e})

\* C28: no activity event is lost under interleaving: once the overlapping
\* add_activity calls for a name have finished, the day file contains
\* every event that was added on that day.
C28_NoEventLost ==
    (\A c \in Callers : tpc[c] = "idle") =>
        \A n \in Names, d \in Days :
            \A i \in 1 .. Len(AddedOn(n, d)) :
                CountIn(files[n][d].events, AddedOn(n, d)[i])
                    = CountIn(AddedOn(n, d), AddedOn(n, d)[i])


\* C29: in every reachable state of the NetworkManager the current network
\* is in the connection set, so get_web3() for the current network never
\* yields None.
C29_CurrentNetworkIsLive ==
    /\ current_network \in connections
    /\ get_web3(NoNetwork)


\* C30: in the credential store the active provider, when set, is a key of
\* the providers map, and the active account, when set, is a key of the
\* accounts map; removing the active entry leaves no dangling reference.
C30_ActiveIsConfigured ==
    /\ active_provider # NotSet => active_provider \in providers
    /\ active_account # NotSet => active_account \in accounts

====
